---- MODULE Spec2Model ----
(***************************************************************************)
(* Model of bakelite-ssh-backend.                                          *)
(*                                                                         *)
(*   src/rust/src/lib.rs   SimplePath (new, join, ancestors), PathJoiner,  *)
(*                         PathAncestors                                   *)
(*   src/rust/src/main.rs  the replication pipeline of main()              *)
(*                                                                         *)
(* A path string is a sequence of symbols.  "/" and "\\" are the two       *)
(* separator characters; every other symbol stands for one or more         *)
(* non-separator characters.                                               *)
(***************************************************************************)
EXTENDS Integers, Sequences, FiniteSets, TLC

VARIABLES
    \* ---- main.rs ----
    archive,      \* the tar entries still owned by archive.entries(), as a sequence
    base_path,    \* main.rs:106
    seen_paths,   \* main.rs:107, the BTreeSet behind the RwLock
    pc,           \* the await point main() is suspended at
    idx,          \* number of entries the stream has yielded so far
    ent,          \* the entry the closure is working on
    dst,          \* main.rs:118
    ancestors,    \* the part of the Vec of main.rs:119 the for loop has not visited
    sz,           \* main.rs:139
    bytes,        \* main.rs:149
    calls,        \* every remote call issued so far, with its outcome
    err,          \* the error main() returned with
    \* ---- lib.rs ----
    raw,          \* the last raw string handed to SimplePath::new / join
    recv,         \* the SimplePath the last join (as self) or re-parse started from
    prev_op,      \* which constructor had produced recv
    buf,          \* SimplePath.buf of the value under construction
    op,           \* which constructor produced buf
    iter,         \* the PathAncestors borrowed from buf, if any
    yielded,      \* the items iter has returned so far
    nones         \* how many times iter has returned None

vars == <<archive, base_path, seen_paths, pc, idx, ent, dst, ancestors, sz,
          bytes, calls, err, raw, recv, prev_op, buf, op, iter, yielded, nones>>

mainVars == <<archive, base_path, seen_paths, pc, idx, ent, dst, ancestors, sz,
              bytes, calls, err>>

libVars == <<raw, recv, prev_op, buf, op, iter, yielded, nones>>

(***************************************************************************)
(* Bounds                                                                  *)
(***************************************************************************)
MaxEntries == 2     \* entries in the archive
MaxLen == 3         \* characters of a raw path string given to lib.rs
MaxBuf == 4         \* characters of a SimplePath built by repeated join
MaxNone == 2        \* calls of PathAncestors::next observed after the first None

(***************************************************************************)
(* Strings                                                                 *)
(***************************************************************************)
Sep == "/"

starts_with(s, c) == Len(s) > 0 /\ s[1] = c

ends_with(s, c) == Len(s) > 0 /\ s[Len(s)] = c

RECURSIVE Concat(_)
Concat(parts) ==
    IF parts = <<>> THEN <<>> ELSE Head(parts) \o Concat(Tail(parts))

\* position of the last "/" of s, 0 when there is none (str::rfind)
rfind(s) ==
    LET hits == {i \in 1..Len(s) : s[i] = Sep}
    IN  IF hits = {} THEN 0 ELSE CHOOSE i \in hits : \A j \in hits : j <= i

(***************************************************************************)
(* lib.rs                                                                  *)
(***************************************************************************)
\* "/" left out of the separators
IsSplitChar_backslash(c) == c = "\\"

IsSplitChar(c) == c \in {"/", "\\"}

\* r.split(&['/', '\\']): the pieces between separators, empty ones included
RECURSIVE str_split(_, _)
str_split(r, cur) ==
    IF r = <<>> THEN <<cur>>
    ELSE IF IsSplitChar(Head(r)) THEN <<cur>> \o str_split(Tail(r), <<>>)
    ELSE str_split(Tail(r), Append(cur, Head(r)))

SimplePath_split(r) == SelectSeq(str_split(r, <<>>), LAMBDA p : p # <<>>)

\* the items PathJoiner yields: the parts with "/" between consecutive ones
RECURSIVE PathJoiner(_)
PathJoiner(parts) ==
    IF parts = <<>> THEN <<>>
    ELSE IF Len(parts) = 1 THEN <<parts[1]>>
    ELSE <<parts[1], <<Sep>>>> \o PathJoiner(Tail(parts))

SimplePath_new(r) ==
    LET rooted == IF starts_with(r, "/") THEN <<Sep>> ELSE <<>>
    IN  rooted \o Concat(PathJoiner(SimplePath_split(r)))

\* a rooted operand appended like any other
SimplePath_join_append(self, r) ==
    Concat(PathJoiner(SelectSeq(<<self, SimplePath_new(r)>>, LAMBDA p : p # <<>>)))

\* empty operands not filtered out
SimplePath_join_unfiltered(self, r) ==
    LET other == SimplePath_new(r)
    IN  IF starts_with(other, "/") THEN other
        ELSE Concat(PathJoiner(<<self, other>>))

SimplePath_join(self, r) ==
    LET other == SimplePath_new(r)
    IN  IF starts_with(other, "/") THEN other
        ELSE Concat(PathJoiner(SelectSeq(<<self, other>>, LAMBDA p : p # <<>>)))

\* Option::None of PathAncestors.next; Some(x) is the 0-based x itself
None == -1

\* str::rfind('/') as an Option<usize>
rfind_opt(s) == IF rfind(s) = 0 THEN None ELSE rfind(s) - 1

\* str::trim_end_matches('/')
RECURSIVE trim_end_matches(_)
trim_end_matches(s) ==
    IF ends_with(s, Sep) THEN trim_end_matches(SubSeq(s, 1, Len(s) - 1)) ELSE s

NoIter == [live |-> FALSE, inner |-> <<>>, next |-> None, done |-> FALSE]

\* PathAncestors::new
PathAncestors_new(pth) ==
    LET trimmed_pth == trim_end_matches(pth)
    IN  [live |-> TRUE,
         inner |-> IF trimmed_pth = <<>> THEN pth ELSE trimmed_pth,
         next |-> None,
         done |-> FALSE]

\* the root is never produced: a path cut at index 0 ends the iteration
PathAncestors_next_no_root(it) ==
    LET hit ==
           IF it.next > 0
           THEN LET cut == trim_end_matches(SubSeq(it.inner, 1, it.next))
                IN  [it EXCEPT !.inner = cut, !.next = rfind_opt(cut)]
           ELSE IF it.next = None /\ ~it.done
           THEN [it EXCEPT !.next = rfind_opt(it.inner)]
           ELSE it
        some == it.next > 0 \/ (it.next = None /\ ~it.done)
    IN  [some |-> some,
         it |-> IF some /\ hit.next = None THEN [hit EXCEPT !.done = TRUE] ELSE hit]

\* PathAncestors::next: the iterator afterwards, and whether Some(it.inner) was returned
PathAncestors_next(it) ==
    LET hit ==
           IF it.next > 0
           THEN LET cut == trim_end_matches(SubSeq(it.inner, 1, it.next))
                IN  [it EXCEPT !.inner = cut, !.next = rfind_opt(cut)]
           ELSE IF it.next = 0 /\ Len(it.inner) > 1
           THEN [it EXCEPT !.inner = SubSeq(it.inner, 1, 1), !.next = None, !.done = TRUE]
           ELSE IF it.next = None /\ ~it.done
           THEN [it EXCEPT !.next = rfind_opt(it.inner)]
           ELSE it
        some ==
           \/ it.next > 0
           \/ it.next = 0 /\ Len(it.inner) > 1
           \/ it.next = None /\ ~it.done
    IN  [some |-> some,
         it |-> IF some /\ hit.next = None THEN [hit EXCEPT !.done = TRUE] ELSE hit]

(***************************************************************************)
(* main.rs: paths (unix_path::PathBuf over clean path strings)             *)
(***************************************************************************)
\* PathBuf::join, through OurPathBuf::join
OurPathBuf_join(base, seg) ==
    IF starts_with(seg, Sep) THEN seg
    ELSE IF base = <<>> THEN seg
    ELSE IF ends_with(base, Sep) THEN base \o seg
    ELSE base \o <<Sep>> \o seg

has_parent(p) == p # <<>> /\ p # <<Sep>>

\* Path::parent: the path without its last component
parent(p) ==
    LET i == rfind(p)
    IN  IF i = 0 THEN <<>>
        ELSE IF i = 1 THEN <<Sep>>
        ELSE SubSeq(p, 1, i - 1)

\* Path::ancestors: p, parent(p), parent(parent(p)), ...
RECURSIVE path_ancestors(_)
path_ancestors(p) ==
    IF has_parent(p)
    THEN <<p>> \o (CHOOSE rest \in {path_ancestors(q) : q \in {parent(p)}} : TRUE)
    ELSE <<p>>

Reverse(s) == [i \in 1..Len(s) |-> s[Len(s) + 1 - i]]

\* the rev() left out: the ancestors stay in leaf-to-root order
dir_ancestors_leaf_first(d) ==
    SelectSeq(Tail(path_ancestors(d)), LAMBDA p : p # <<>>)

\* the skip(1) left out: the destination itself is among the ancestors
dir_ancestors_with_leaf(d) ==
    SelectSeq(Reverse(path_ancestors(d)), LAMBDA p : p # <<>>)

\* one ancestor too many skipped from the root end
dir_ancestors_below_root(d) ==
    SelectSeq(Tail(Reverse(Tail(path_ancestors(d)))), LAMBDA p : p # <<>>)

\* main.rs:119
dir_ancestors(d) ==
    SelectSeq(Reverse(Tail(path_ancestors(d))), LAMBDA p : p # <<>>)

(***************************************************************************)
(* main.rs: inputs                                                         *)
(***************************************************************************)
BasePaths == {<<"/", "home", "/", "u">>, <<".">>}

Sizes == {0, 4096}

\* byte counts a copy can stop at before the declared size is reached
ShortCounts == {4000}

FileEntries ==
    {[type |-> "file", path |-> <<"a", "/", "b", "/", "c.txt">>, size |-> 4096],
     [type |-> "file", path |-> <<"a", "/", "d.txt">>, size |-> 0]}

OtherEntries ==
    {[type |-> "dir", path |-> <<"a", "/", "b">>, size |-> 0],
     [type |-> "symlink", path |-> <<"a", "/", "d.txt">>, size |-> 0]}

Entries == FileEntries \cup OtherEntries

Archives == UNION {[1..n -> Entries] : n \in 0..MaxEntries}

NoEnt == [type |-> "none", path |-> <<>>, size |-> 0]

NoErr == [kind |-> "none", expected |-> 0, actual |-> 0]

Call(o, p, n, r) == [op |-> o, path |-> p, size |-> n, res |-> r]

(***************************************************************************)
(* main.rs: the pipeline, one action per await point and outcome           *)
(***************************************************************************)
\* the type test dropped: every entry is taken for a regular file
is_file_always(e) == TRUE

\* EntryType::is_file, main.rs:115
is_file(e) == e.type = "file"

\* a lookup that never hits
contains_miss(seen, pth) == pth \in {}

\* BTreeSet::contains, main.rs:122
contains(seen, pth) == pth \in seen

\* BTreeSet::insert, main.rs:135
insert(seen, pth) == seen \cup {pth}

\* the stream ends one entry early
stream_done_early(n, ar) == n + 1 >= Len(ar)

\* the stream of archive.entries() has no entry left
stream_done(n, ar) == n = Len(ar)

\* a short write accepted
size_matches_atmost(b, s) == b <= s

\* main.rs:153
size_matches(b, s) == b = s

\* an Err leaving the closure through `?`, then main through `.await?`
Abort(kind, e, a) ==
    /\ pc' = "Aborted"
    /\ err' = [kind |-> kind, expected |-> e, actual |-> a]

MainInit ==
    /\ archive \in Archives
    /\ base_path \in BasePaths
    /\ seen_paths = {}
    /\ pc = "entries"
    /\ idx = 0
    /\ ent = NoEnt
    /\ dst = <<>>
    /\ ancestors = <<>>
    /\ sz = 0
    /\ bytes = 0
    /\ calls = <<>>
    /\ err = NoErr

\* try_for_each polls the stream and gets Some(Ok(ent))
ReadEntry ==
    /\ pc = "entries"
    /\ ~stream_done(idx, archive)
    /\ idx' = idx + 1
    /\ ent' = archive[idx + 1]
    /\ pc' = "entry"
    /\ UNCHANGED <<archive, base_path, seen_paths, dst, ancestors, sz, bytes, calls, err>>
    /\ UNCHANGED libVars

\* try_for_each polls the stream and gets Some(Err(_))
ReadEntryErr ==
    /\ pc = "entries"
    /\ ~stream_done(idx, archive)
    /\ Abort("entry_read", 0, 0)
    /\ UNCHANGED <<archive, base_path, seen_paths, idx, ent, dst, ancestors, sz, bytes, calls>>
    /\ UNCHANGED libVars

\* the poll of an exhausted stream stays pending: None never arrives
EndOfEntries_pending ==
    /\ pc = "entries"
    /\ idx = Len(archive)
    /\ UNCHANGED vars

\* try_for_each polls the stream and gets None
EndOfEntries ==
    /\ pc = "entries"
    /\ stream_done(idx, archive)
    /\ pc' = "disconnect"
    /\ UNCHANGED <<archive, base_path, seen_paths, idx, ent, dst, ancestors, sz, bytes, calls, err>>
    /\ UNCHANGED libVars

\* main.rs:115-117
SkipEntry ==
    /\ pc = "entry"
    /\ ~is_file(ent)
    /\ pc' = "entries"
    /\ UNCHANGED <<archive, base_path, seen_paths, idx, ent, dst, ancestors, sz, bytes, calls, err>>
    /\ UNCHANGED libVars

\* main.rs:118-119
Destination ==
    /\ pc = "entry"
    /\ is_file(ent)
    /\ \E d \in {OurPathBuf_join(base_path, ent.path)} :
          /\ dst' = d
          /\ ancestors' = dir_ancestors(d)
    /\ pc' = "ancestors"
    /\ UNCHANGED <<archive, base_path, seen_paths, idx, ent, sz, bytes, calls, err>>
    /\ UNCHANGED libVars

\* main.rs:118, ent.path()? is an Err
DestinationErr ==
    /\ pc = "entry"
    /\ is_file(ent)
    /\ Abort("entry_path", 0, 0)
    /\ UNCHANGED <<archive, base_path, seen_paths, idx, ent, dst, ancestors, sz, bytes, calls>>
    /\ UNCHANGED libVars

\* main.rs:122-124
CacheHit ==
    /\ pc = "ancestors"
    /\ ancestors # <<>>
    /\ Head(ancestors) = <<>> \/ contains(seen_paths, Head(ancestors))
    /\ ancestors' = Tail(ancestors)
    /\ UNCHANGED <<archive, base_path, seen_paths, pc, idx, ent, dst, sz, bytes, calls, err>>
    /\ UNCHANGED libVars

\* main.rs:126-128 and, when the stat is Ok, 133-136
Stat(res) ==
    /\ pc = "ancestors"
    /\ ancestors # <<>>
    /\ ~(Head(ancestors) = <<>> \/ contains(seen_paths, Head(ancestors)))
    /\ calls' = Append(calls, Call("stat", Head(ancestors), 0, res))
    /\ IF res = "ok"
       THEN /\ seen_paths' = insert(seen_paths, Head(ancestors))
            /\ ancestors' = Tail(ancestors)
            /\ pc' = "ancestors"
       ELSE /\ pc' = "mkdir"
            /\ UNCHANGED <<seen_paths, ancestors>>
    /\ UNCHANGED <<archive, base_path, idx, ent, dst, sz, bytes, err>>
    /\ UNCHANGED libVars

\* main.rs:130 and, when the mkdir is Ok, 133-136
Mkdir(res) ==
    /\ pc = "mkdir"
    /\ calls' = Append(calls, Call("mkdir", Head(ancestors), 0, res))
    /\ IF res = "ok"
       THEN /\ seen_paths' = insert(seen_paths, Head(ancestors))
            /\ ancestors' = Tail(ancestors)
            /\ pc' = "ancestors"
            /\ UNCHANGED err
       ELSE /\ Abort("mkdir", 0, 0)
            /\ UNCHANGED <<seen_paths, ancestors>>
    /\ UNCHANGED <<archive, base_path, idx, ent, dst, sz, bytes>>
    /\ UNCHANGED libVars

\* main.rs:139, ent.header().size()? is an Err
SizeErr ==
    /\ pc = "ancestors"
    /\ ancestors = <<>>
    /\ Abort("entry_size", 0, 0)
    /\ UNCHANGED <<archive, base_path, seen_paths, idx, ent, dst, ancestors, sz, bytes, calls>>
    /\ UNCHANGED libVars

\* main.rs:139 and 147-148
ScpSend(res) ==
    /\ pc = "ancestors"
    /\ ancestors = <<>>
    /\ sz' = ent.size
    /\ calls' = Append(calls, Call("scp_send", dst, sz', res))
    /\ IF res = "ok"
       THEN pc' = "copy" /\ UNCHANGED err
       ELSE Abort("scp_send", 0, 0)
    /\ UNCHANGED <<archive, base_path, seen_paths, idx, ent, dst, ancestors, bytes>>
    /\ UNCHANGED libVars

\* main.rs:149-150, fio::copy is Ok(n)
Copy(n) ==
    /\ pc = "copy"
    /\ n = sz \/ (n \in ShortCounts /\ n < sz)
    /\ bytes' = n
    /\ calls' = Append(calls, Call("write", dst, n, "ok"))
    /\ pc' = "close"
    /\ UNCHANGED <<archive, base_path, seen_paths, idx, ent, dst, ancestors, sz, err>>
    /\ UNCHANGED libVars

\* main.rs:149-150, fio::copy is an Err
CopyErr ==
    /\ pc = "copy"
    /\ calls' = Append(calls, Call("write", dst, 0, "error"))
    /\ Abort("copy", 0, 0)
    /\ UNCHANGED <<archive, base_path, seen_paths, idx, ent, dst, ancestors, sz, bytes>>
    /\ UNCHANGED libVars

\* main.rs:151-157
Close(res) ==
    /\ pc = "close"
    /\ calls' = Append(calls, Call("close", dst, 0, res))
    /\ IF res # "ok" THEN Abort("close", 0, 0)
       ELSE IF size_matches(bytes, sz) THEN pc' = "entries" /\ UNCHANGED err
       ELSE Abort("size_mismatch", sz, bytes)
    /\ UNCHANGED <<archive, base_path, seen_paths, idx, ent, dst, ancestors, sz, bytes>>
    /\ UNCHANGED libVars

\* main.rs:161-163
Disconnect(res) ==
    /\ pc = "disconnect"
    /\ calls' = Append(calls, Call("disconnect", <<>>, 0, res))
    /\ IF res = "ok" THEN pc' = "Completed" /\ UNCHANGED err
       ELSE Abort("disconnect", 0, 0)
    /\ UNCHANGED <<archive, base_path, seen_paths, idx, ent, dst, ancestors, sz, bytes>>
    /\ UNCHANGED libVars

StatResults == {"ok", "not_found", "error"}

MkdirResults == {"ok", "already_exists", "error"}

CallResults == {"ok", "error"}

(***************************************************************************)
(* lib.rs: every SimplePath a caller can build with new and join           *)
(***************************************************************************)
Chars == {"/", "\\", "a"}

RawStrings == UNION {[1..n -> Chars] : n \in 0..MaxLen}

LibIdle ==
    /\ raw = <<>>
    /\ recv = <<>>
    /\ prev_op = "none"
    /\ buf = <<>>
    /\ op = "none"
    /\ iter = NoIter
    /\ yielded = <<>>
    /\ nones = 0

MainIdle ==
    /\ archive = <<>>
    /\ base_path = <<".">>
    /\ seen_paths = {}
    /\ pc = "entries"
    /\ idx = 0
    /\ ent = NoEnt
    /\ dst = <<>>
    /\ ancestors = <<>>
    /\ sz = 0
    /\ bytes = 0
    /\ calls = <<>>
    /\ err = NoErr

\* SimplePath::new(r); buf is not replaced while an iterator borrows it
New(r) ==
    /\ ~iter.live
    /\ raw' = r
    /\ recv' = <<>>
    /\ prev_op' = "none"
    /\ buf' = SimplePath_new(r)
    /\ op' = "new"
    /\ UNCHANGED <<iter, yielded, nones>>
    /\ UNCHANGED mainVars

\* SimplePath::new(p) of the SimplePath p built so far (impl AsRef<str> for SimplePath)
Reparse ==
    /\ ~iter.live
    /\ op # "none"
    /\ recv' = buf
    /\ prev_op' = op
    /\ buf' = SimplePath_new(buf)
    /\ op' = "reparse"
    /\ UNCHANGED <<raw, iter, yielded, nones>>
    /\ UNCHANGED mainVars

\* self.join(r), self being the SimplePath built so far
Join(r) ==
    /\ ~iter.live
    /\ op # "none"
    /\ Len(SimplePath_join(buf, r)) <= MaxBuf
    /\ raw' = r
    /\ recv' = buf
    /\ prev_op' = op
    /\ buf' = SimplePath_join(buf, r)
    /\ op' = "join"
    /\ UNCHANGED <<iter, yielded, nones>>
    /\ UNCHANGED mainVars

\* self.ancestors(), lib.rs:38-40
Ancestors ==
    /\ ~iter.live
    /\ op # "none"
    /\ iter' = PathAncestors_new(buf)
    /\ yielded' = <<>>
    /\ nones' = 0
    /\ UNCHANGED <<raw, recv, prev_op, buf, op>>
    /\ UNCHANGED mainVars

\* one call of next() on the iterator
AncestorsNext ==
    /\ iter.live
    /\ nones < MaxNone
    /\ LET r == PathAncestors_next(iter)
       IN  /\ iter' = r.it
           /\ IF r.some
              THEN yielded' = Append(yielded, r.it.inner) /\ UNCHANGED nones
              ELSE nones' = nones + 1 /\ UNCHANGED yielded
    /\ UNCHANGED <<raw, recv, prev_op, buf, op>>
    /\ UNCHANGED mainVars

\* the iterator goes out of scope
AncestorsDrop ==
    /\ iter.live
    /\ iter' = NoIter
    /\ yielded' = <<>>
    /\ nones' = 0
    /\ UNCHANGED <<raw, recv, prev_op, buf, op>>
    /\ UNCHANGED mainVars

(***************************************************************************)
(* Specifications                                                          *)
(***************************************************************************)
Init == MainInit /\ LibIdle

Next ==
    \/ ReadEntry
    \/ ReadEntryErr
    \/ EndOfEntries
    \/ SkipEntry
    \/ Destination
    \/ DestinationErr
    \/ CacheHit
    \/ \E res \in StatResults : Stat(res)
    \/ \E res \in MkdirResults : Mkdir(res)
    \/ SizeErr
    \/ \E res \in CallResults : ScpSend(res)
    \/ \E n \in Sizes \cup ShortCounts : Copy(n)
    \/ CopyErr
    \/ \E res \in CallResults : Close(res)
    \/ \E res \in CallResults : Disconnect(res)

Spec == Init /\ [][Next]_vars

\* every container read and remote call returns, and the runtime keeps polling main
FairSpec == Init /\ [][Next]_vars /\ WF_vars(Next)

PathInit == MainIdle /\ LibIdle

PathNext ==
    \/ \E r \in RawStrings : New(r)
    \/ Reparse
    \/ \E r \in RawStrings : Join(r)
    \/ Ancestors
    \/ AncestorsNext
    \/ AncestorsDrop

PathSpec == PathInit /\ [][PathNext]_vars

(***************************************************************************)
(* Reading the call log                                                    *)
(***************************************************************************)
Last(s) == s[Len(s)]

IsDirCall(c) == c.op \in {"stat", "mkdir"}

\* a stat or mkdir that confirmed its directory
Confirms(c) == IsDirCall(c) /\ c.res = "ok"

\* the directories confirmed present or created, in the order that happened
Materialized ==
    LET hits == SelectSeq(calls, Confirms)
    IN  [i \in 1..Len(hits) |-> hits[i].path]

Farewells == {i \in DOMAIN calls : calls[i].op = "disconnect"}

ClosedOk == {i \in DOMAIN calls : calls[i].op = "close" /\ calls[i].res = "ok"}

FilesOf(ar) == {k \in DOMAIN ar : ar[k].type = "file"}

Range(s) == {s[i] : i \in DOMAIN s}

(***************************************************************************)
(* C1: once a stat or a mkdir of a directory succeeded, the directory is   *)
(* in seen_paths and no later stat or mkdir names it; no directory is      *)
(* stat'ed twice or mkdir'ed twice in one run.                             *)
(***************************************************************************)
C1_OneRoundTripPerAncestor ==
    \A i \in DOMAIN calls :
       IsDirCall(calls[i]) =>
          /\ Confirms(calls[i]) => calls[i].path \in seen_paths
          /\ \A j \in (i + 1)..Len(calls) :
                (IsDirCall(calls[j]) /\ calls[j].path = calls[i].path) =>
                   /\ ~Confirms(calls[i])
                   /\ calls[i].op # calls[j].op

\* two file entries with a common ancestor directory have both been replicated
C1_Witness ==
    /\ pc = "Completed"
    /\ Len(archive) = 2
    /\ archive[1].type = "file" /\ archive[2].type = "file"
    /\ Range(dir_ancestors(OurPathBuf_join(base_path, archive[1].path)))
          \cap Range(dir_ancestors(OurPathBuf_join(base_path, archive[2].path))) # {}
    /\ Cardinality(ClosedOk) = 2

(***************************************************************************)
(* C2: after the first fatal error of any step (a failed entry read, stat, *)
(* mkdir, channel open, copy, close, or a size mismatch) the pipeline is   *)
(* Aborted and that failed call is the last remote call of the run.        *)
(***************************************************************************)
C2_FirstFatalErrorAborts ==
    /\ err # NoErr => pc = "Aborted"
    /\ \A i \in DOMAIN calls :
          calls[i].res = "error" => pc = "Aborted" /\ i = Len(calls)

(***************************************************************************)
(* C3: the size comparison comes after the close of the channel; a close   *)
(* after which the bytes written differ from the bytes announced is the    *)
(* last call of the run, which is Aborted with both counts in the error,   *)
(* the failing entry still being the current one.                          *)
(***************************************************************************)
C3_SizeCheckAfterClose ==
    /\ \A i \in ClosedOk :
          /\ i >= 3
          /\ calls[i - 1].op = "write" /\ calls[i - 2].op = "scp_send"
          /\ calls[i - 1].size # calls[i - 2].size =>
                /\ i = Len(calls)
                /\ pc = "Aborted"
                /\ err = [kind |-> "size_mismatch",
                          expected |-> calls[i - 2].size,
                          actual |-> calls[i - 1].size]
    /\ err.kind = "size_mismatch" =>
          /\ Len(calls) \in ClosedOk
          /\ err.expected # err.actual
          /\ err.expected = ent.size /\ err.actual = bytes
          /\ idx >= 1 /\ ent = archive[idx]

\* 4000 of 4096 bytes were written, and an entry after the failing one is left
C3_Witness ==
    /\ err = [kind |-> "size_mismatch", expected |-> 4096, actual |-> 4000]
    /\ idx < Len(archive)

(***************************************************************************)
(* C4: one 4096-byte file a/b/c.txt under /home/u, no call failing:        *)
(* the directories materialized are /home/u/.tmp, /home/u/a, /home/u/a/b   *)
(* in that order, one channel is opened, for /home/u/a/b/c.txt with 4096   *)
(* bytes announced, 4096 bytes are copied, and the run is Completed.       *)
(***************************************************************************)
C4_EndToEndScenario ==
    (/\ archive = <<[type |-> "file", path |-> <<"a", "/", "b", "/", "c.txt">>,
                     size |-> 4096]>>
     /\ base_path = <<"/", "home", "/", "u">>
     /\ \A i \in DOMAIN calls : calls[i].res = "ok"
     /\ pc = "Completed")
    =>
    /\ Materialized = << <<"/", "home", "/", "u", "/", ".tmp">>,
                         <<"/", "home", "/", "u", "/", "a">>,
                         <<"/", "home", "/", "u", "/", "a", "/", "b">> >>
    /\ SelectSeq(calls, LAMBDA c : c.op = "scp_send")
          = <<Call("scp_send", <<"/", "home", "/", "u", "/", "a", "/", "b", "/", "c.txt">>,
                   4096, "ok")>>
    /\ bytes = 4096

(***************************************************************************)
(* C5: a mkdir that fails with already-exists, after a not-found stat of   *)
(* the same directory, counts as a success: the directory is recorded in   *)
(* seen_paths and the run is not aborted by it.                            *)
(***************************************************************************)
C5_AlreadyExistsIsSuccess ==
    \A i \in DOMAIN calls :
       (/\ calls[i] = Call("mkdir", calls[i].path, 0, "already_exists")
        /\ i >= 2
        /\ calls[i - 1] = Call("stat", calls[i].path, 0, "not_found")) =>
          /\ calls[i].path \in seen_paths
          /\ ~(i = Len(calls) /\ pc = "Aborted")

(***************************************************************************)
(* C6: a stat that fails with anything but not-found aborts the run on the *)
(* spot: no mkdir follows it and its directory is not recorded; a mkdir is *)
(* issued only right after a not-found stat of the same directory.         *)
(***************************************************************************)
C6_StatErrorIsFatal ==
    /\ \A i \in DOMAIN calls :
          (calls[i].op = "stat" /\ calls[i].res = "error") =>
             /\ i = Len(calls)
             /\ pc = "Aborted"
             /\ calls[i].path \notin seen_paths
    /\ \A i \in DOMAIN calls :
          calls[i].op = "mkdir" =>
             /\ i >= 2
             /\ calls[i - 1] = Call("stat", calls[i].path, 0, "not_found")

(***************************************************************************)
(* C7: the scratch directory join(base_path, ".tmp") is materialized       *)
(* before the first entry is read, so it is confirmed or created in every  *)
(* Completed run, also for an archive without file entries.                *)
(***************************************************************************)
ScratchPath == OurPathBuf_join(base_path, <<".tmp">>)

C7_ScratchDirFirst ==
    (idx >= 1 \/ pc \in {"disconnect", "Completed"}) =>
       /\ ScratchPath \in seen_paths
       /\ Materialized # <<>> /\ Materialized[1] = ScratchPath

(***************************************************************************)
(* C8: disconnect is called at most once, as the last call of the run and  *)
(* only when every entry has been read and every file entry transferred    *)
(* and closed with no failed call before it; a Completed run has read all  *)
(* entries and its disconnect succeeded.                                   *)
(*   As claimed: an Aborted run has no disconnect call.                    *)
(*   As amended: an Aborted run has no disconnect call unless it is the    *)
(*   disconnect itself that failed.                                        *)
(***************************************************************************)
C8_FarewellOrder ==
    /\ Cardinality(Farewells) <= 1
    /\ \A i \in Farewells :
          /\ i = Len(calls)
          /\ idx = Len(archive)
          /\ Cardinality(ClosedOk) = Cardinality(FilesOf(archive))
          /\ \A j \in 1..(i - 1) :
                calls[j].op # "stat" => calls[j].res = "ok"
    /\ pc = "Completed" =>
          /\ idx = Len(archive)
          /\ calls # <<>> /\ Last(calls) = Call("disconnect", <<>>, 0, "ok")
          /\ err = NoErr

C9_NonFileSkipped ==
    [][(pc = "entry" /\ ent.type # "file") =>
          /\ pc' = "entries"
          /\ UNCHANGED <<calls, seen_paths, err, idx, archive, base_path>>]_vars

\* a directory entry was skipped and the entry after it has been read
C9_Witness ==
    /\ idx = 2
    /\ archive[1].type = "dir"
    /\ pc = "entry"
    /\ calls = <<>> /\ seen_paths = {} /\ err = NoErr

(***************************************************************************)
(* C10: every SimplePath built by new or join has "/" as its only          *)
(* separator, no two adjacent separators, and no trailing separator unless *)
(* it is the root "/".                                                     *)
(***************************************************************************)
WellFormed(p) ==
    /\ \A i \in DOMAIN p : p[i] # "\\"
    /\ \A i \in 1..(Len(p) - 1) : ~(p[i] = Sep /\ p[i + 1] = Sep)
    /\ ends_with(p, Sep) => p = <<Sep>>

C10_PathInvariants == op \in {"new", "join"} => WellFormed(buf)

(***************************************************************************)
(* C11: a join whose operand begins with "/" returns the parse of the      *)
(* operand, whatever the receiver is.                                      *)
(***************************************************************************)
C11_RootedOperandOverrides ==
    (op = "join" /\ starts_with(raw, Sep)) => buf = SimplePath_new(raw)

\* a non-empty receiver was discarded for a rooted operand with a segment
C11_Witness ==
    /\ op = "join"
    /\ starts_with(raw, Sep)
    /\ recv # <<>> /\ recv # buf
    /\ Len(buf) >= 2

(***************************************************************************)
(* C12: new yields a path beginning with "/" exactly when its argument     *)
(* begins with "/" or with "\\", and the segments of the result are the    *)
(* non-empty pieces of the argument between separators of either kind.     *)
(***************************************************************************)
\* the maximal runs of non-separator characters of s, left to right
RECURSIVE Pieces(_, _)
Pieces(s, cur) ==
    IF s = <<>> THEN (IF cur = <<>> THEN <<>> ELSE <<cur>>)
    ELSE IF Head(s) \in {"/", "\\"}
         THEN (IF cur = <<>> THEN <<>> ELSE <<cur>>) \o Pieces(Tail(s), <<>>)
         ELSE Pieces(Tail(s), Append(cur, Head(s)))

C12_RootedForEitherSeparator ==
    op = "new" =>
       /\ starts_with(buf, Sep) <=> (raw # <<>> /\ raw[1] \in {"/", "\\"})
       /\ Pieces(buf, <<>>) = Pieces(raw, <<>>)

(***************************************************************************)
(* C13: the items ancestors() returns for a parsed path are the prefixes   *)
(* of its segments from the longest to the shortest, each with the leading *)
(* "/" of a rooted path, then "/" if the path is rooted; a path without    *)
(* segments gives the path itself alone.  Every call after that returns    *)
(* None.                                                                   *)
(***************************************************************************)
\* the first k pieces of p joined by "/", behind the "/" of a rooted p
PrefixOf(p, k) ==
    LET ps == Pieces(p, <<>>)
        RECURSIVE Glue(_)
        Glue(n) == IF n = 1 THEN ps[1] ELSE Glue(n - 1) \o <<Sep>> \o ps[n]
    IN  (IF starts_with(p, Sep) THEN <<Sep>> ELSE <<>>) \o Glue(k)

AncestorsRef(p) ==
    LET n == Len(Pieces(p, <<>>))
    IN  IF n = 0 THEN <<p>>
        ELSE [i \in 1..n |-> PrefixOf(p, n + 1 - i)]
                \o (IF starts_with(p, Sep) THEN << <<Sep>> >> ELSE <<>>)

IsPrefix(s, t) == Len(s) <= Len(t) /\ s = SubSeq(t, 1, Len(s))

C13_AncestorsSequence ==
    (iter.live /\ op \in {"new", "reparse"}) =>
       /\ IsPrefix(yielded, AncestorsRef(buf))
       /\ nones >= 1 => yielded = AncestorsRef(buf)

\* a rooted path of two segments gave three items, then None twice
C13_Witness ==
    /\ iter.live
    /\ op \in {"new", "reparse"}
    /\ buf = <<"/", "a", "/", "a">>
    /\ yielded = << <<"/", "a", "/", "a">>, <<"/", "a">>, <<"/">> >>
    /\ nones >= 2

(***************************************************************************)
(* C14: new applied to a path that new returned gives that path back.      *)
(***************************************************************************)
C14_ParseIdempotent ==
    (op = "reparse" /\ prev_op \in {"new", "reparse"}) => buf = recv

\* the raw string mixed both separators and was not normalized itself
C14_Witness ==
    /\ op = "reparse"
    /\ prev_op = "new"
    /\ \E i, j \in DOMAIN raw : raw[i] = "/" /\ raw[j] = "\\"
    /\ Pieces(buf, <<>>) # <<>>
    /\ buf # raw

(***************************************************************************)
(* C15: joining the empty string onto parse(A) gives parse(A), and joining *)
(* B onto the empty path gives parse(B).                                   *)
(***************************************************************************)
C15_EmptyOperandAbsorbed ==
    /\ (op = "join" /\ raw = <<>> /\ prev_op \in {"new", "reparse"}) => buf = recv
    /\ (op = "join" /\ recv = <<>>) => buf = SimplePath_new(raw)

\* the empty string was joined onto a parsed path of two segments
C15_Witness ==
    /\ op = "join"
    /\ raw = <<>>
    /\ prev_op = "new"
    /\ Len(Pieces(recv, <<>>)) = 2

(***************************************************************************)
(* C16: no stat or mkdir names the empty path, and when a stat or mkdir of *)
(* a directory is issued its parent directory (unless that is the empty    *)
(* path) has been confirmed by an earlier successful stat or mkdir; the    *)
(* ancestors still to visit are in root-to-leaf order.                     *)
(***************************************************************************)
C16_ParentBeforeChild ==
    /\ \A i \in DOMAIN calls :
          IsDirCall(calls[i]) =>
             LET up == parent(calls[i].path)
             IN  /\ calls[i].path # <<>>
                 /\ (has_parent(calls[i].path) /\ up # <<>>) =>
                       \E j \in 1..(i - 1) :
                          Confirms(calls[j]) /\ calls[j].path = up
    /\ \A k \in 1..(Len(ancestors) - 1) : ancestors[k] = parent(ancestors[k + 1])

\* a directory below an already materialized one was created
C16_Witness ==
    \E i \in DOMAIN calls :
       /\ calls[i] = Call("mkdir", calls[i].path, 0, "ok")
       /\ Len(path_ancestors(calls[i].path)) >= 3

(***************************************************************************)
(* C17: the channels opened are, in order, those of the file entries read  *)
(* so far, each for join(base_path, entry.path) with the entry's declared  *)
(* size; when a channel is opened every non-empty proper ancestor of its   *)
(* destination has been confirmed, and the stats and mkdirs issued for     *)
(* that entry do not name the destination; an entry whose materialization  *)
(* failed gets no channel.                                                 *)
(***************************************************************************)
ProperAncestors(p) == {q \in Range(path_ancestors(p)) : q # p /\ q # <<>>}

SendCalls == SelectSeq(calls, LAMBDA c : c.op = "scp_send")

FilesRead == SelectSeq(SubSeq(archive, 1, idx), LAMBDA e : e.type = "file")

C17_ChannelAfterAncestors ==
    /\ LET sends == SendCalls
           files == FilesRead
       IN  /\ Len(sends) <= Len(files)
           /\ \A k \in DOMAIN sends :
                 /\ sends[k].path = OurPathBuf_join(base_path, files[k].path)
                 /\ sends[k].size = files[k].size
    /\ \A i \in DOMAIN calls :
          calls[i].op = "scp_send" =>
             /\ \A q \in ProperAncestors(calls[i].path) :
                   /\ q \in seen_paths
                   /\ \E j \in 1..(i - 1) : Confirms(calls[j]) /\ calls[j].path = q
             /\ \A j \in 1..(i - 1) :
                   (IsDirCall(calls[j]) /\ calls[j].path = calls[i].path) =>
                      \E k \in (j + 1)..(i - 1) : ~IsDirCall(calls[k])
    /\ err.kind = "mkdir" =>
          /\ Last(calls).op = "mkdir"
          /\ Len(SendCalls) < Len(FilesRead)

\* a channel was just opened below three directories, one of them created
C17_Witness ==
    /\ pc = "copy"
    /\ Cardinality(ProperAncestors(dst)) >= 3
    /\ \E i \in DOMAIN calls : calls[i].op = "mkdir"
    /\ Last(calls) = Call("scp_send", dst, ent.size, "ok")

(***************************************************************************)
(* C18: seen_paths is exactly the set of directories a stat or a mkdir of  *)
(* the run has succeeded on, so it grows with the log of calls and a path  *)
(* enters it only after such a success; a directory whose stat or mkdir    *)
(* returned an error is not in it.                                         *)
(***************************************************************************)
C18_CacheGrowsAndIsSound ==
    /\ seen_paths = {calls[i].path : i \in {k \in DOMAIN calls : Confirms(calls[k])}}
    /\ \A i \in DOMAIN calls :
          (IsDirCall(calls[i]) /\ calls[i].res = "error") =>
             calls[i].path \notin seen_paths

(***************************************************************************)
(* C19: every run ends in Completed for good or in Aborted for good; in a  *)
(* terminal state nothing changes any more, and the count of entries read  *)
(* never goes back.                                                        *)
(***************************************************************************)
Terminal == pc \in {"Completed", "Aborted"}

C19_RunTerminates ==
    /\ (<>[](pc = "Completed")) \/ (<>[](pc = "Aborted"))
    /\ [][Terminal => UNCHANGED mainVars]_vars
    /\ [][idx' \in {idx, idx + 1}]_vars

\* a run over two entries has ended
C19_Witness ==
    /\ Terminal
    /\ Len(archive) >= 2
    /\ idx = Len(archive)

(***************************************************************************)
(* C20: in every state, every non-empty proper ancestor of a path in       *)
(* seen_paths is in seen_paths.                                            *)
(***************************************************************************)
C20_CacheClosedUnderAncestors ==
    \A p \in seen_paths : ProperAncestors(p) \subseteq seen_paths

\* the run was aborted by a mkdir below directories already recorded
C20_Witness ==
    /\ pc = "Aborted"
    /\ err.kind = "mkdir"
    /\ \E p \in seen_paths : ProperAncestors(p) # {}
    /\ ancestors # <<>>

====
